---- MODULE Spec2Model ----
(***************************************************************************)
(* Model of simulate_pbft.py: the Node vote, the PBFT and CE-PBFT quorum   *)
(* decisions, simulate() and the sweep loop over the Byzantine ratios.     *)
(*                                                                         *)
(* Python floats are IEEE-754 binary64.  The two float expressions of the  *)
(* program, (2/3) * len(nodes) and n_nodes * byzantine_ratio, are computed *)
(* here bit by bit with round-to-nearest-even, on mantissas kept as bit    *)
(* sequences (most significant bit first).                                 *)
(***************************************************************************)
EXTENDS Integers, Sequences, FiniteSets, TLC

VARIABLES
    n_nodes,              \* parameter n_nodes
    n_transactions,       \* parameter n_transactions
    byzantine_ratios,     \* the list the sweep iterates over
    i,                    \* index of the current ratio in the sweep loop
    cls,                  \* protocol_class of the current or next simulate call
    pc,                   \* position of the program
    nodes,                \* protocol.nodes: is_byzantine of each Node, in list order
    trusted_nodes,        \* CEPBFTProtocol.trusted_nodes: positions in nodes
    t,                    \* completed iterations of the transaction loop
    correct_transactions, \* simulate's counter
    slept,                \* some Node.vote slept since start_time
    elapsed_time,         \* elapsed_time of the simulate call that ended last
    polled,               \* positions whose vote() the last consensus called
    approved_votes,       \* approved_votes of the last consensus call
    result,               \* return value of the last consensus call
    pops,                 \* number of node lists built so far
    pop,                  \* pop[c]: the node list protocol c was constructed on
    ret,                  \* ret[c]: what simulate(c, ...) returned for this ratio
    pbft_throughputs,
    cepbft_throughputs,
    pbft_correct_ratios,
    cepbft_correct_ratios,
    error,                \* uncaught exception, "none" while running
    call                  \* one application of a float expression (SpecFn)

vars == <<n_nodes, n_transactions, byzantine_ratios, i, cls, pc, nodes,
          trusted_nodes, t, correct_transactions, slept, elapsed_time,
          polled, approved_votes, result, pops, pop, ret, pbft_throughputs,
          cepbft_throughputs, pbft_correct_ratios, cepbft_correct_ratios,
          error, call>>

simvars == <<n_nodes, n_transactions, byzantine_ratios, i, cls, pc, nodes,
             trusted_nodes, t, correct_transactions, slept, elapsed_time,
             polled, approved_votes, result, pops, pop, ret, pbft_throughputs,
             cepbft_throughputs, pbft_correct_ratios, cepbft_correct_ratios,
             error>>

(***************************************************************************)
(* Bounds of the model.                                                    *)
(***************************************************************************)
MaxNodes == 5
MaxTransactions == 2
MaxFnNodes == 50

(***************************************************************************)
(* binary64 arithmetic.  A float is [sign, m, e]: sign * m * 2^e, m a bit  *)
(* sequence of at most MantissaBits significant bits, <<>> for zero.       *)
(***************************************************************************)
MantissaBits == 53

RECURSIVE NatBits(_)
NatBits(x) ==
    IF x = 0 THEN <<>> ELSE Append(NatBits(x \div 2), x % 2)

RECURSIVE BitsNat(_)
BitsNat(b) ==
    IF b = <<>> THEN 0
    ELSE 2 * BitsNat(SubSeq(b, 1, Len(b) - 1)) + b[Len(b)]

StripZeros(b) ==
    IF \A j \in 1..Len(b) : b[j] = 0 THEN <<>>
    ELSE LET first == CHOOSE j \in 1..Len(b) :
                          b[j] = 1 /\ \A h \in 1..(j - 1) : b[h] = 0
         IN  SubSeq(b, first, Len(b))

\* b + 1
Increment(b) ==
    IF \A j \in 1..Len(b) : b[j] = 1 THEN <<1>> \o [j \in 1..Len(b) |-> 0]
    ELSE LET last == CHOOSE j \in 1..Len(b) :
                         b[j] = 0 /\ \A h \in (j + 1)..Len(b) : b[h] = 1
         IN  [j \in 1..Len(b) |-> IF j < last THEN b[j]
                                  ELSE IF j = last THEN 1 ELSE 0]

\* x on w bits
FixedBits(x, w) ==
    [j \in 1..w |-> (x \div (2 ^ (w - j))) % 2]

\* b * n + carry for a small natural n, on limbs of 15 bits taken from the
\* least significant end
LimbStart(b) ==
    IF Len(b) > 15 THEN Len(b) - 14 ELSE 1

LimbProduct(b, n, carry) ==
    BitsNat(SubSeq(b, LimbStart(b), Len(b))) * n + carry

RECURSIVE TimesLimbs(_, _, _)
TimesLimbs(b, n, carry) ==
    IF Len(b) <= 15 THEN NatBits(LimbProduct(b, n, carry))
    ELSE TimesLimbs(SubSeq(b, 1, Len(b) - 15), n,
                    LimbProduct(b, n, carry) \div (2 ^ 15))
             \o FixedBits(LimbProduct(b, n, carry) % (2 ^ 15), 15)

TimesNat(b, n) ==
    StripZeros(TimesLimbs(b, n, 0))

\* the exact value b * 2^e rounded to MantissaBits bits, ties to even
RoundNearestEven(sign, bits, e) ==
    LET b == StripZeros(bits)
    IN  IF Len(b) <= MantissaBits THEN [sign |-> sign, m |-> b, e |-> e]
        ELSE LET kept == SubSeq(b, 1, MantissaBits)
                 tail == SubSeq(b, MantissaBits + 1, Len(b))
                 rest == \E j \in 2..Len(tail) : tail[j] = 1
                 up   == tail[1] = 1 /\ (rest \/ kept[MantissaBits] = 1)
             IN  [sign |-> sign,
                  m |-> IF up THEN Increment(kept) ELSE kept,
                  e |-> e + Len(tail)]

\* num/den scaled by a power of two into [1, 2): <<num', den', exponent>>
RECURSIVE Normalise(_, _, _)
Normalise(num, den, x) ==
    IF num >= 2 * den THEN Normalise(num, 2 * den, x + 1)
    ELSE IF num < den THEN Normalise(2 * num, den, x - 1)
    ELSE <<num, den, x>>

\* 2^k mod den, by repeated squaring
SquareMod(h, odd, den) ==
    (h * h * (IF odd THEN 2 ELSE 1)) % den

RECURSIVE Pow2Mod(_, _)
Pow2Mod(k, den) ==
    IF k = 0 THEN 1 % den
    ELSE SquareMod(Pow2Mod(k \div 2, den), k % 2 = 1, den)

\* the first k bits of the binary fraction r/den (r < den), then a sticky
\* bit for what is left
FracBits(r, den, k) ==
    [j \in 1..(k + 1) |->
        IF j <= k
        THEN IF 2 * ((r * Pow2Mod(j - 1, den)) % den) >= den THEN 1 ELSE 0
        ELSE IF (r * Pow2Mod(k, den)) % den = 0 THEN 0 ELSE 1]

\* the float nearest to num/den (a literal such as 0.2, or the division 2/3)
ToFloat(num, den) ==
    IF num = 0 THEN [sign |-> 1, m |-> <<>>, e |-> 0]
    ELSE LET s == IF num < 0 THEN -1 ELSE 1
             n == Normalise(s * num, den, 0)
         IN  RoundNearestEven(s, <<1>> \o FracBits(n[1] - n[2], n[2], MantissaBits),
                              n[3] - MantissaBits - 1)

\* int * float
IntTimesFloat(n, f) ==
    LET s == IF n < 0 THEN -1 ELSE 1
    IN  IF n = 0 \/ f.m = <<>> THEN [sign |-> 1, m |-> <<>>, e |-> 0]
        ELSE RoundNearestEven(s * f.sign, TimesNat(f.m, s * n), f.e)

\* integer part of the magnitude
Magnitude(f) ==
    IF f.e >= 0 THEN BitsNat(f.m) * (2 ^ f.e)
    ELSE IF -f.e >= Len(f.m) THEN 0
    ELSE BitsNat(SubSeq(f.m, 1, Len(f.m) + f.e))

HasFraction(f) ==
    /\ f.e < 0
    /\ \E j \in 1..Len(f.m) : j > Len(f.m) + f.e /\ f.m[j] = 1

\* int(f): truncation toward zero
IntOf(f) ==
    f.sign * Magnitude(f)

\* a >= f for an int a and a float f >= 0 (Python compares them exactly)
IntGeqFloat(a, f) ==
    a >= Magnitude(f) + (IF HasFraction(f) THEN 1 ELSE 0)

(***************************************************************************)
(* Node                                                                    *)
(***************************************************************************)
\* a Node that votes at random whatever its kind
VoteOutcomesRandom(is_byzantine) ==
    {TRUE, FALSE}

\* the values Node.vote can return
VoteOutcomes(is_byzantine) ==
    IF is_byzantine THEN {TRUE, FALSE} ELSE {TRUE}

\* the vote lists [node.vote(transaction) for node in voters], voters being
\* positions in ns
VoteLists(ns, voters) ==
    {v \in [1..Len(voters) -> BOOLEAN] :
        \A j \in 1..Len(voters) : v[j] \in VoteOutcomes(ns[voters[j]])}

\* sum(votes)
Sum(votes) ==
    Cardinality({j \in 1..Len(votes) : votes[j]})

(***************************************************************************)
(* PBFTProtocol and CEPBFTProtocol                                         *)
(***************************************************************************)
\* the float 2/3
TwoThirds == ToFloat(2, 3)

\* slips of the threshold comparison: 2 * len // 3, and > for >=
QuorumFloorDivision(approved, size) ==
    approved >= (2 * size) \div 3

QuorumStrict(approved, size) ==
    3 * approved > 2 * size

\* approved_votes >= (2/3) * len(...)
QuorumReached(approved, size) ==
    IntGeqFloat(approved, IntTimesFloat(size, TwoThirds))

\* the positions PBFTProtocol.consensus polls: every node
PBFTVoters(ns) ==
    [j \in 1..Len(ns) |-> j]

PBFTConsensus(ns, votes) ==
    QuorumReached(Sum(votes), Len(ns))

\* CEPBFTProtocol.classify_nodes: the nodes that are not byzantine, in order
RECURSIVE Honest(_, _)
Honest(ns, j) ==
    IF j > Len(ns) THEN <<>>
    ELSE (IF ns[j] THEN <<>> ELSE <<j>>) \o Honest(ns, j + 1)

\* slips of the filter: no filter, and the filter without its "not"
TrustEveryNode(ns) ==
    [j \in 1..Len(ns) |-> j]

RECURSIVE Byzantine(_, _)
Byzantine(ns, j) ==
    IF j > Len(ns) THEN <<>>
    ELSE (IF ns[j] THEN <<j>> ELSE <<>>) \o Byzantine(ns, j + 1)

TrustByzantine(ns) ==
    Byzantine(ns, 1)

classify_nodes(ns) ==
    Honest(ns, 1)

\* the positions CEPBFTProtocol.consensus polls
CEPBFTVoters(trusted) ==
    IF Len(trusted) = 0 THEN <<>> ELSE trusted

\* consensus without the check for an empty trusted list
CEPBFTConsensusUnguarded(trusted, votes) ==
    QuorumReached(Sum(votes), Len(trusted))

CEPBFTConsensus(trusted, votes) ==
    IF Len(trusted) = 0 THEN FALSE
    ELSE QuorumReached(Sum(votes), Len(trusted))

(***************************************************************************)
(* simulate                                                                *)
(***************************************************************************)
\* int(n_nodes * byzantine_ratio), the ratio being the literal num/den
NByzantine(n, ratio) ==
    IntOf(IntTimesFloat(n, ToFloat(ratio[1], ratio[2])))

\* len(range(k))
RangeLen(k) ==
    IF k > 0 THEN k ELSE 0

\* the node list before the shuffle: the byzantine nodes, then the honest
BuildNodes(n, ratio) ==
    [j \in 1..RangeLen(NByzantine(n, ratio)) |-> TRUE]
        \o [j \in 1..RangeLen(n - NByzantine(n, ratio)) |-> FALSE]

\* a resampling with replacement (random.choices) in place of a shuffle
ShuffleWithReplacement(s) ==
    {p \in [1..Len(s) -> BOOLEAN] : \A j \in 1..Len(s) : \E h \in 1..Len(s) : p[j] = s[h]}

\* the orders random.shuffle can leave the list in
Shuffle(s) ==
    {p \in [1..Len(s) -> BOOLEAN] : Sum(p) = Sum(s)}

\* time.time() - start_time: every vote sleeps at least 0.01 s; with no
\* vote polled the two clock readings may or may not differ
ElapsedOutcomes(has_slept) ==
    IF has_slept THEN {"positive"} ELSE {"zero", "positive"}

\* correct_transactions / elapsed_time for a positive elapsed_time
Throughput(correct) ==
    IF correct > 0 THEN "positive" ELSE "zero"

(***************************************************************************)
(* The parameters.  The program sets n_nodes = 20, n_transactions = 100    *)
(* and the list SweepRatios; the model draws them from small sets.         *)
(***************************************************************************)
SweepRatios ==
    << <<0, 10>>, <<1, 10>>, <<2, 10>>, <<3, 10>>, <<4, 10>> >>

RatioLists ==
    {SweepRatios, << <<5, 10>>, <<10, 10>> >>, << <<15, 10>> >>, << <<-5, 10>> >>}

NoError == [type |-> "none", line |-> 0]

NoCall == [op |-> "none", n |-> 0, ratio |-> <<0, 1>>, approved |-> 0,
           done |-> FALSE, count |-> 0, decision |-> FALSE]

NoRet == [throughput |-> "zero", correct |-> 0, total |-> 0]

NoPop == [id |-> 0, nodes |-> <<>>]

Start ==
    /\ i = 1
    /\ cls = "PBFT"
    /\ pc = "call"
    /\ nodes = <<>>
    /\ trusted_nodes = <<>>
    /\ t = 0
    /\ correct_transactions = 0
    /\ slept = FALSE
    /\ elapsed_time = "unset"
    /\ polled = <<>>
    /\ approved_votes = 0
    /\ result = FALSE
    /\ pops = 0
    /\ pop = [c \in {"PBFT", "CEPBFT"} |-> NoPop]
    /\ ret = [c \in {"PBFT", "CEPBFT"} |-> NoRet]
    /\ pbft_throughputs = <<>>
    /\ cepbft_throughputs = <<>>
    /\ pbft_correct_ratios = <<>>
    /\ cepbft_correct_ratios = <<>>
    /\ error = NoError

Init ==
    /\ n_nodes \in (-1)..MaxNodes
    /\ n_transactions \in 0..MaxTransactions
    /\ byzantine_ratios \in RatioLists
    /\ Start
    /\ call = NoCall

\* the ratio of the current iteration of the sweep loop
Ratio == byzantine_ratios[i]

\* simulate, lines 62-73: build and shuffle the nodes, construct the protocol
Build ==
    /\ pc = "call"
    /\ \E order \in Shuffle(BuildNodes(n_nodes, Ratio)) :
          /\ nodes' = order
          /\ trusted_nodes' = IF cls = "CEPBFT" THEN classify_nodes(order) ELSE <<>>
          /\ pop' = [pop EXCEPT ![cls] = [id |-> pops + 1, nodes |-> order]]
    /\ pops' = pops + 1
    /\ t' = 0
    /\ correct_transactions' = 0
    /\ slept' = FALSE
    /\ elapsed_time' = "unset"
    /\ polled' = <<>>
    /\ approved_votes' = 0
    /\ result' = FALSE
    /\ pc' = "loop"
    /\ UNCHANGED <<n_nodes, n_transactions, byzantine_ratios, i, cls, ret,
                   pbft_throughputs, cepbft_throughputs, pbft_correct_ratios,
                   cepbft_correct_ratios, error, call>>

\* one iteration of the transaction loop with protocol = PBFTProtocol(nodes)
RoundPBFT ==
    /\ pc = "loop"
    /\ cls = "PBFT"
    /\ t < n_transactions
    /\ \E votes \in VoteLists(nodes, PBFTVoters(nodes)) :
          /\ polled' = PBFTVoters(nodes)
          /\ approved_votes' = Sum(votes)
          /\ result' = PBFTConsensus(nodes, votes)
    /\ slept' = (slept \/ polled' # <<>>)
    /\ correct_transactions' = correct_transactions + (IF result' THEN 1 ELSE 0)
    /\ t' = t + 1
    /\ UNCHANGED <<n_nodes, n_transactions, byzantine_ratios, i, cls, pc, nodes,
                   trusted_nodes, elapsed_time, pops, pop, ret, pbft_throughputs,
                   cepbft_throughputs, pbft_correct_ratios,
                   cepbft_correct_ratios, error, call>>

\* one iteration of the transaction loop with protocol = CEPBFTProtocol(nodes)
RoundCEPBFT ==
    /\ pc = "loop"
    /\ cls = "CEPBFT"
    /\ t < n_transactions
    /\ \E votes \in VoteLists(nodes, CEPBFTVoters(trusted_nodes)) :
          /\ polled' = CEPBFTVoters(trusted_nodes)
          /\ approved_votes' = Sum(votes)
          /\ result' = CEPBFTConsensus(trusted_nodes, votes)
    /\ slept' = (slept \/ polled' # <<>>)
    /\ correct_transactions' = correct_transactions + (IF result' THEN 1 ELSE 0)
    /\ t' = t + 1
    /\ UNCHANGED <<n_nodes, n_transactions, byzantine_ratios, i, cls, pc, nodes,
                   trusted_nodes, elapsed_time, pops, pop, ret, pbft_throughputs,
                   cepbft_throughputs, pbft_correct_ratios,
                   cepbft_correct_ratios, error, call>>

\* lines 80-83 with elapsed_time > 0: simulate returns
SimulateReturns ==
    /\ pc = "loop"
    /\ t = n_transactions
    /\ "positive" \in ElapsedOutcomes(slept)
    /\ elapsed_time' = "positive"
    /\ ret' = [ret EXCEPT ![cls] =
                  [throughput |-> Throughput(correct_transactions),
                   correct |-> correct_transactions,
                   total |-> n_transactions]]
    /\ cls' = IF cls = "PBFT" THEN "CEPBFT" ELSE "PBFT"
    /\ pc' = IF cls = "PBFT" THEN "call" ELSE "append"
    /\ UNCHANGED <<n_nodes, n_transactions, byzantine_ratios, i, nodes,
                   trusted_nodes, t, correct_transactions, slept, polled,
                   approved_votes, result, pops, pop, pbft_throughputs,
                   cepbft_throughputs, pbft_correct_ratios,
                   cepbft_correct_ratios, error, call>>

\* lines 80-81 with elapsed_time == 0.0: the division raises
SimulateRaises ==
    /\ pc = "loop"
    /\ t = n_transactions
    /\ "zero" \in ElapsedOutcomes(slept)
    /\ elapsed_time' = "zero"
    /\ error' = [type |-> "ZeroDivisionError", line |-> 81]
    /\ pc' = "raised"
    /\ UNCHANGED <<n_nodes, n_transactions, byzantine_ratios, i, cls, nodes,
                   trusted_nodes, t, correct_transactions, slept, polled,
                   approved_votes, result, pops, pop, ret, pbft_throughputs,
                   cepbft_throughputs, pbft_correct_ratios,
                   cepbft_correct_ratios, call>>

\* sweep loop, lines 100-104, with pbft_total > 0
AppendResults ==
    /\ pc = "append"
    /\ ret["PBFT"].total # 0
    /\ pbft_throughputs' = Append(pbft_throughputs, ret["PBFT"].throughput)
    /\ cepbft_throughputs' = Append(cepbft_throughputs, ret["CEPBFT"].throughput)
    /\ pbft_correct_ratios' =
           Append(pbft_correct_ratios, <<ret["PBFT"].correct, ret["PBFT"].total>>)
    /\ cepbft_correct_ratios' =
           Append(cepbft_correct_ratios,
                  <<ret["CEPBFT"].correct, ret["CEPBFT"].total>>)
    /\ i' = i + 1
    /\ pc' = IF i + 1 > Len(byzantine_ratios) THEN "done" ELSE "call"
    /\ UNCHANGED <<n_nodes, n_transactions, byzantine_ratios, cls, nodes,
                   trusted_nodes, t, correct_transactions, slept, elapsed_time,
                   polled, approved_votes, result, pops, pop, ret, error, call>>

\* sweep loop, lines 100-103, with pbft_total == 0: the division raises
AppendRaises ==
    /\ pc = "append"
    /\ ret["PBFT"].total = 0
    /\ pbft_throughputs' = Append(pbft_throughputs, ret["PBFT"].throughput)
    /\ cepbft_throughputs' = Append(cepbft_throughputs, ret["CEPBFT"].throughput)
    /\ error' = [type |-> "ZeroDivisionError", line |-> 103]
    /\ pc' = "raised"
    /\ UNCHANGED <<n_nodes, n_transactions, byzantine_ratios, i, cls, nodes,
                   trusted_nodes, t, correct_transactions, slept, elapsed_time,
                   polled, approved_votes, result, pops, pop, ret,
                   pbft_correct_ratios, cepbft_correct_ratios, call>>

Next ==
    \/ Build
    \/ RoundPBFT
    \/ RoundCEPBFT
    \/ SimulateReturns
    \/ SimulateRaises
    \/ AppendResults
    \/ AppendRaises

Spec == Init /\ [][Next]_vars

(***************************************************************************)
(* The two float expressions applied to inputs drawn from bounded sets.    *)
(***************************************************************************)
Hundredths == {<<k, 100>> : k \in 0..100}

FnInputs ==
    {[NoCall EXCEPT !.op = "n_byzantine", !.n = n, !.ratio = r] :
        n \in 0..MaxFnNodes, r \in Hundredths}
    \cup
    {[NoCall EXCEPT !.op = "consensus", !.n = ar[1], !.approved = ar[2]] :
        ar \in {x \in (0..MaxFnNodes) \X (0..MaxFnNodes) : x[2] <= x[1]}}

InitFn ==
    /\ n_nodes = 0
    /\ n_transactions = 0
    /\ byzantine_ratios = <<>>
    /\ Start
    /\ call \in FnInputs

\* simulate, line 63, for n_nodes = call.n and byzantine_ratio = call.ratio
ApplyNByzantine ==
    /\ call.op = "n_byzantine"
    /\ ~call.done
    /\ call' = [call EXCEPT !.done = TRUE, !.count = NByzantine(call.n, call.ratio)]
    /\ UNCHANGED simvars

\* PBFTProtocol.consensus over call.n nodes of which call.approved approve
ApplyConsensus ==
    /\ call.op = "consensus"
    /\ ~call.done
    /\ call' = [call EXCEPT
                   !.done = TRUE,
                   !.decision = PBFTConsensus([j \in 1..call.n |-> TRUE],
                                              [j \in 1..call.n |-> j <= call.approved])]
    /\ UNCHANGED simvars

NextFn ==
    \/ ApplyNByzantine
    \/ ApplyConsensus

SpecFn == InitFn /\ [][NextFn]_vars

(***************************************************************************)
(* Properties                                                              *)
(***************************************************************************)
HonestPositions == {p \in 1..Len(nodes) : ~nodes[p]}

ByzantinePositions == {p \in 1..Len(nodes) : nodes[p]}

\* C1: PBFTProtocol.consensus returns true exactly when the number of
\* approving votes is at least two thirds of the population size, compared as
\* real numbers (3 * approved >= 2 * size): 2 of 3 and 14 of 20 approve, 1 of 3
\* and 13 of 20 do not.
C1_BaselineQuorumIsTwoThirds ==
    (call.op = "consensus" /\ call.done)
        => (call.decision <=> 3 * call.approved >= 2 * call.n)

C1_Witness ==
    /\ call.op = "consensus"
    /\ call.done
    /\ call.n = 20
    /\ call.approved = 14
    /\ call.decision

\* C2: with an empty trusted list every CEPBFTProtocol.consensus call returns
\* false and polls no node, so no transaction counts as correct.
C2_EmptyTrustedRejects ==
    (cls = "CEPBFT" /\ pc \in {"loop", "raised"} /\ trusted_nodes = <<>>)
        => /\ result = FALSE
           /\ polled = <<>>
           /\ correct_transactions = 0

C2_Witness ==
    /\ cls = "CEPBFT"
    /\ pc = "loop"
    /\ trusted_nodes = <<>>
    /\ Len(nodes) >= 2
    /\ t = n_transactions
    /\ t >= 2
    /\ result = FALSE
    /\ polled = <<>>

\* C3: with ratio 0.0 and n_nodes >= 1 every consensus call of either protocol
\* returns true, so each simulate call returns correct_transactions equal to
\* n_transactions.
C3_AllHonestAlwaysApproves ==
    (n_nodes >= 1 /\ i <= Len(byzantine_ratios) /\ Ratio[1] = 0)
        => /\ pc \in {"loop", "raised"}
                => (correct_transactions = t /\ (t > 0 => result))
           /\ (pc = "call" /\ cls = "CEPBFT")
                => ret["PBFT"].correct = n_transactions
           /\ pc = "append"
                => /\ ret["PBFT"].correct = n_transactions
                   /\ ret["CEPBFT"].correct = n_transactions

C3_Witness ==
    /\ pc = "append"
    /\ n_nodes >= 2
    /\ Ratio[1] = 0
    /\ n_transactions >= 2
    /\ ret["PBFT"].correct = n_transactions
    /\ ret["CEPBFT"].correct = n_transactions

\* C4: simulate builds exactly floor(n * r) byzantine nodes, and n minus that
\* many honest ones, for every n >= 0 and every ratio r in [0, 1].
C4_FaultyCountIsFloor ==
    (call.op = "n_byzantine" /\ call.done)
        => call.count = (call.n * call.ratio[1]) \div call.ratio[2]

\* C5: when the honest nodes alone are at least two thirds of the population,
\* every PBFTProtocol.consensus call returns true whatever the byzantine nodes
\* vote, so correct_transactions equals the number of rounds run.
C5_HonestQuorumAlwaysApproves ==
    (cls = "PBFT" /\ pc \in {"loop", "raised"}
        /\ 3 * Cardinality(HonestPositions) >= 2 * Len(nodes))
        => /\ correct_transactions = t
           /\ t > 0 => result

C5_Witness ==
    /\ cls = "PBFT"
    /\ pc = "loop"
    /\ 3 * Cardinality(HonestPositions) >= 2 * Len(nodes)
    /\ ByzantinePositions # {}
    /\ t = n_transactions
    /\ t >= 2
    /\ approved_votes < Len(nodes)
    /\ result
    /\ correct_transactions = t

\* C6: the trusted list of a CEPBFTProtocol instance holds exactly the honest
\* nodes, each once, through every consensus call, and no consensus call
\* polls a byzantine node.
C6_TrustedIsExactlyHonest ==
    (cls = "CEPBFT" /\ pc \in {"loop", "raised"})
        => /\ {trusted_nodes[j] : j \in 1..Len(trusted_nodes)} = HonestPositions
           /\ Len(trusted_nodes) = Cardinality(HonestPositions)
           /\ \A j \in 1..Len(polled) : ~nodes[polled[j]]

C6_Witness ==
    /\ cls = "CEPBFT"
    /\ pc = "loop"
    /\ t >= 2
    /\ ByzantinePositions # {}
    /\ Cardinality(HonestPositions) >= 2
    /\ nodes[1]
    /\ Len(polled) = Cardinality(HonestPositions)

\* C7 as stated: at every ratio of the sweep both protocol instances are
\* constructed on one population instance, the same node objects in the same
\* order.
C7_SamePopulationInstance ==
    (pc = "append" /\ n_nodes >= 2 /\ byzantine_ratios = SweepRatios)
        => /\ pop["PBFT"].id = pop["CEPBFT"].id
           /\ pop["PBFT"].nodes = pop["CEPBFT"].nodes

\* C7 amended: at every ratio each protocol instance is constructed on a node
\* list built and shuffled by its own simulate call; the two lists have the
\* same length and the same number of byzantine nodes.
C7_SameCompositionSeparatelyBuilt ==
    pc = "append"
        => /\ pop["PBFT"].id # pop["CEPBFT"].id
           /\ Len(pop["PBFT"].nodes) = Len(pop["CEPBFT"].nodes)
           /\ Sum(pop["PBFT"].nodes) = Sum(pop["CEPBFT"].nodes)

C7_Witness ==
    /\ pc = "append"
    /\ pop["PBFT"].nodes # pop["CEPBFT"].nodes
    /\ Len(pop["PBFT"].nodes) = n_nodes
    /\ Sum(pop["PBFT"].nodes) = Sum(pop["CEPBFT"].nodes)
    /\ Sum(pop["PBFT"].nodes) >= 1

\* C8: when elapsed_time is zero simulate does not divide by it: the run ends
\* in an explicit undefined result, not in a ZeroDivisionError (stated for
\* the sweep's own ratios and n_nodes >= 1).
C8_ZeroElapsedIsGuarded ==
    (elapsed_time = "zero" /\ n_nodes >= 1 /\ byzantine_ratios = SweepRatios)
        => error.type # "ZeroDivisionError"

\* C9: a negative n_nodes or a ratio outside [0, 1] is rejected before any
\* node is constructed and before any round runs, so every node list built
\* has n_nodes nodes of which 0..n_nodes are byzantine.
C9_InvalidParametersRejected ==
    /\ (n_nodes < 0
          \/ (i <= Len(byzantine_ratios)
                /\ (Ratio[1] < 0 \/ Ratio[1] > Ratio[2])))
          => pc = "call"
    /\ pc = "loop"
          => /\ Len(nodes) = n_nodes
             /\ Sum(nodes) \in 0..n_nodes

\* C10 as stated: at every ratio from 0.0 to 0.4 the CE-PBFT correct ratio
\* appended by the sweep is at least the PBFT one, for every n_nodes >= 0.
C10_TrustFilteredAtLeastBaseline ==
    \A j \in 1..Len(pbft_correct_ratios) :
        (n_nodes >= 0 /\ byzantine_ratios[j][1] >= 0
            /\ 10 * byzantine_ratios[j][1] <= 4 * byzantine_ratios[j][2])
        => cepbft_correct_ratios[j][1] * pbft_correct_ratios[j][2]
             >= pbft_correct_ratios[j][1] * cepbft_correct_ratios[j][2]

\* C10 amended: at every ratio from 0.0 to 0.4 and for n_nodes >= 1 the CE-PBFT
\* correct ratio appended by the sweep is at least the PBFT one, whatever the
\* byzantine nodes voted.
C10_TrustFilteredAtLeastBaselineNonEmpty ==
    \A j \in 1..Len(pbft_correct_ratios) :
        (n_nodes >= 1 /\ byzantine_ratios[j][1] >= 0
            /\ 10 * byzantine_ratios[j][1] <= 4 * byzantine_ratios[j][2])
        => cepbft_correct_ratios[j][1] * pbft_correct_ratios[j][2]
             >= pbft_correct_ratios[j][1] * cepbft_correct_ratios[j][2]

C10_Witness ==
    /\ n_nodes >= 1
    /\ pc = "done"
    /\ Len(pbft_correct_ratios) = Len(SweepRatios)
    /\ byzantine_ratios = SweepRatios
    /\ pbft_correct_ratios[5][1] < cepbft_correct_ratios[5][1]
    /\ cepbft_correct_ratios[5][1] = n_transactions

====
